---- MODULE Spec2Model ----
(* A model of lightning-block-sync's SpvClient and ChainNotifier             *)
(* (src/lightning-block-sync/src/lib.rs): polling for the best chain tip,    *)
(* finding the fork between two tips and syncing a ChainListener.            *)
EXTENDS Integers, Sequences, FiniteSets, TLC

(***************************************************************************)
(* Bounds and the block tree served by the block source.                   *)
(***************************************************************************)

\* Height of the highest block of every chain of the block tree.
MaxHeight == 3

\* Number of chains besides the main chain.
NumForks == 2

\* Chain 0 is the main chain. Chain 1 has its own genesis block; chain
\* c >= 2 branches off the main chain with its first own block at height c.
ChainIds == 0 .. NumForks

ForkHeight(c) == IF c = 1 THEN 0 ELSE c

\* A block hash is the pair <<chain, height>> of the block it identifies.
BlockHashes == {b \in ChainIds \X (0 .. MaxHeight) : b[1] = 0 \/ b[2] >= ForkHeight(b[1])}

\* The all-zero hash that every genesis header carries as prev_blockhash.
NullHash == <<0, -1>>

PrevHash(b) ==
  IF b[2] = 0 THEN NullHash
  ELSE IF b[1] # 0 /\ b[2] = ForkHeight(b[1]) THEN <<0, b[2] - 1>>
  ELSE <<b[1], b[2] - 1>>

\* Work of one block: blocks of a fork carry more work than main chain blocks.
BlockWork(c) == IF c = 0 THEN 2 ELSE 3

\* Cumulative work of the chain ending at block b.
ChainWork(b) ==
  IF b[1] = 0 THEN BlockWork(0) * (b[2] + 1)
  ELSE BlockWork(0) * ForkHeight(b[1]) + BlockWork(b[1]) * (b[2] - ForkHeight(b[1]) + 1)

\* ValidatedBlockHeader: block_hash and the BlockHeaderData it derefs to.
Header(b) ==
  [block_hash |-> b, prev_blockhash |-> PrevHash(b), height |-> b[2], chainwork |-> ChainWork(b)]

Headers == {Header(b) : b \in BlockHashes}

\* Option<T>: None is the empty sequence, Some(x) a sequence of one element.
None == <<>>
Some(x) == <<x>>
IsSome(o) == Len(o) = 1
Unwrap(o) == o[1]

(***************************************************************************)
(* Cache (UnboundedCache = HashMap<BlockHash, ValidatedBlockHeader>).       *)
(***************************************************************************)

CacheGet(cache, block_hash) ==
  IF block_hash \in DOMAIN cache THEN Some(cache[block_hash]) ELSE None

CacheInsert(cache, block_hash, block_header) ==
  [k \in (DOMAIN cache) \cup {block_hash} |-> IF k = block_hash THEN block_header ELSE cache[k]]

CacheRemove(cache, block_hash) ==
  [k \in (DOMAIN cache) \ {block_hash} |-> cache[k]]

\* The cache holding exactly the headers of the given hashes.
CacheOf(hashes) == [k \in hashes |-> Header(k)]

(***************************************************************************)
(* ForkStep and ChainNotifier::find_fork.                                  *)
(***************************************************************************)

ForkPoint(h) == [step |-> "ForkPoint", header |-> h]
DisconnectBlock(h) == [step |-> "DisconnectBlock", header |-> h]
ConnectBlock(h) == [step |-> "ConnectBlock", header |-> h]

\* The larger of two heights.
MaxOf(a, b) == IF a >= b THEN a ELSE b

\* The locals of find_fork on entry; walk records max(current.height,
\* previous.height) at the top of each iteration of the loop.
FindForkInit(current_header, prev_header) ==
  [steps |-> <<>>, current |-> current_header, previous |-> prev_header,
   current_height |-> 0, previous_height |-> 0, at |-> "top", walk |-> <<>>]

\* FindForkDeliver with previous itself pushed as the ForkPoint.
FindForkDeliverForkAtPrevious(f, h) ==
  IF f.at = "fork_point" THEN
    [f EXCEPT !.steps = f.steps \o <<DisconnectBlock(f.previous), ConnectBlock(f.current), ForkPoint(f.previous)>>,
              !.at = "done"]
  ELSE IF f.at = "previous" THEN
    [f EXCEPT !.previous = h, !.at = "mid"]
  ELSE
    [f EXCEPT !.current = h, !.at = "top"]

\* The result of a look_up_previous_header call made at loop position f.at
\* is bound and the walk moves to the next position.
FindForkDeliver(f, h) ==
  IF f.at = "fork_point" THEN
    [f EXCEPT !.steps = f.steps \o <<DisconnectBlock(f.previous), ConnectBlock(f.current), ForkPoint(h)>>,
              !.at = "done"]
  ELSE IF f.at = "previous" THEN
    [f EXCEPT !.previous = h, !.at = "mid"]
  ELSE
    [f EXCEPT !.current = h, !.at = "top"]

\* FindForkPiece with the second fast path comparing heights instead of
\* prev_blockhash.
FindForkPieceSameHeight(f) ==
  IF f.at = "top" THEN
    LET g == [f EXCEPT !.walk = Append(f.walk, MaxOf(f.current.height, f.previous.height))] IN
    IF f.current.height = f.previous.height + 1
       /\ f.current.prev_blockhash = f.previous.block_hash THEN
      [g EXCEPT !.steps = Append(f.steps, ConnectBlock(f.current)), !.at = "done"]
    ELSE IF f.current.height = f.previous.height THEN
      [g EXCEPT !.at = "fork_point"]
    ELSE IF f.current.height <= f.previous.height THEN
      [g EXCEPT !.current_height = f.current.height, !.previous_height = f.previous.height,
                !.steps = Append(f.steps, DisconnectBlock(f.previous)), !.at = "previous"]
    ELSE
      [g EXCEPT !.current_height = f.current.height, !.previous_height = f.previous.height,
                !.at = "mid"]
  ELSE
    IF f.current_height >= f.previous_height THEN
      [f EXCEPT !.steps = Append(f.steps, ConnectBlock(f.current)), !.at = "current"]
    ELSE
      [f EXCEPT !.at = "top"]

\* FindForkPiece walking only previous back when the heights are equal.
FindForkPieceOneSide(f) ==
  IF f.at = "top" THEN
    LET g == [f EXCEPT !.walk = Append(f.walk, MaxOf(f.current.height, f.previous.height))] IN
    IF f.current.height = f.previous.height + 1
       /\ f.current.prev_blockhash = f.previous.block_hash THEN
      [g EXCEPT !.steps = Append(f.steps, ConnectBlock(f.current)), !.at = "done"]
    ELSE IF f.current.prev_blockhash = f.previous.prev_blockhash THEN
      [g EXCEPT !.at = "fork_point"]
    ELSE IF f.current.height <= f.previous.height THEN
      [g EXCEPT !.current_height = f.current.height, !.previous_height = f.previous.height,
                !.steps = Append(f.steps, DisconnectBlock(f.previous)), !.at = "previous"]
    ELSE
      [g EXCEPT !.current_height = f.current.height, !.previous_height = f.previous.height,
                !.at = "mid"]
  ELSE
    IF f.current_height > f.previous_height THEN
      [f EXCEPT !.steps = Append(f.steps, ConnectBlock(f.current)), !.at = "current"]
    ELSE
      [f EXCEPT !.at = "top"]

\* One piece of the loop body, from position "top" or "mid" up to the next
\* look_up_previous_header call (or to the break).
FindForkPiece(f) ==
  IF f.at = "top" THEN
    LET g == [f EXCEPT !.walk = Append(f.walk, MaxOf(f.current.height, f.previous.height))] IN
    IF f.current.height = f.previous.height + 1
       /\ f.current.prev_blockhash = f.previous.block_hash THEN
      [g EXCEPT !.steps = Append(f.steps, ConnectBlock(f.current)), !.at = "done"]
    ELSE IF f.current.prev_blockhash = f.previous.prev_blockhash THEN
      [g EXCEPT !.at = "fork_point"]
    ELSE IF f.current.height <= f.previous.height THEN
      [g EXCEPT !.current_height = f.current.height, !.previous_height = f.previous.height,
                !.steps = Append(f.steps, DisconnectBlock(f.previous)), !.at = "previous"]
    ELSE
      [g EXCEPT !.current_height = f.current.height, !.previous_height = f.previous.height,
                !.at = "mid"]
  ELSE
    IF f.current_height >= f.previous_height THEN
      [f EXCEPT !.steps = Append(f.steps, ConnectBlock(f.current)), !.at = "current"]
    ELSE
      [f EXCEPT !.at = "top"]

\* The header whose previous header the pending lookup asks for.
LookupSubject(f) == IF f.at = "current" THEN f.current ELSE f.previous

\* FindForkRun asking the poller for every previous header, cached or not.
RECURSIVE FindForkRunNoCache(_, _)
FindForkRunNoCache(cache, f) ==
  IF f.at = "done" THEN f
  ELSE IF f.at \in {"top", "mid"} THEN FindForkRunNoCache(cache, FindForkPiece(f))
  ELSE f

\* find_fork runs without suspending while every lookup hits the cache; it
\* stops at "done" or at a lookup ("fork_point", "previous", "current") that
\* misses the cache and awaits the poller.
RECURSIVE FindForkRun(_, _)
FindForkRun(cache, f) ==
  IF f.at = "done" THEN f
  ELSE IF f.at \in {"top", "mid"} THEN FindForkRun(cache, FindForkPiece(f))
  ELSE LET cached == CacheGet(cache, LookupSubject(f).prev_blockhash)
       IN IF IsSome(cached) THEN FindForkRun(cache, FindForkDeliver(f, Unwrap(cached)))
          ELSE f


(***************************************************************************)
(* ChainListener calls and the passes of ChainNotifier::sync_listener.     *)
(***************************************************************************)

BlockConnected(h) ==
  [call |-> "block_connected", block_hash |-> h.block_hash,
   prev_blockhash |-> h.prev_blockhash, height |-> h.height]

BlockDisconnected(h) ==
  [call |-> "block_disconnected", block_hash |-> h.block_hash,
   prev_blockhash |-> h.prev_blockhash, height |-> h.height]

\* The tip of the chain a listener is left with by a call.
TipAfterCall(c) == IF c.call = "block_connected" THEN c.block_hash ELSE c.prev_blockhash

RECURSIVE TipAfterCalls(_, _)
TipAfterCalls(tip, calls) ==
  IF calls = <<>> THEN tip ELSE TipAfterCalls(TipAfterCall(Head(calls)), Tail(calls))

\* The state of the first loop of sync_listener before its first iteration.
DisconnectPassInit(cache) ==
  [header_cache |-> cache, calls |-> <<>>, last_disconnect_tip |-> None,
   new_tip |-> None, assert_ok |-> TRUE]

\* DisconnectArm without the removal from the cache.
DisconnectArmNoRemove(acc, header) ==
  [acc EXCEPT !.calls = Append(acc.calls, BlockDisconnected(header)),
              !.last_disconnect_tip = Some(header.prev_blockhash)]

\* The DisconnectBlock arm of the first loop.
DisconnectArm(acc, header) ==
  LET cached_header == CacheGet(acc.header_cache, header.block_hash)
  IN IF IsSome(cached_header) /\ Unwrap(cached_header) # header THEN
       \* assert_eq!(cached_header, *header) panics after the removal.
       [acc EXCEPT !.header_cache = CacheRemove(acc.header_cache, header.block_hash),
                   !.assert_ok = FALSE]
     ELSE
       [acc EXCEPT !.header_cache = CacheRemove(acc.header_cache, header.block_hash),
                   !.calls = Append(acc.calls, BlockDisconnected(header)),
                   !.last_disconnect_tip = Some(header.prev_blockhash)]

\* The first loop of sync_listener, from step i on.
RECURSIVE DisconnectPass(_, _, _)
DisconnectPass(steps, i, acc) ==
  IF i > Len(steps) \/ ~acc.assert_ok THEN acc
  ELSE IF steps[i].step = "DisconnectBlock" THEN
    DisconnectPass(steps, i + 1, DisconnectArm(acc, steps[i].header))
  ELSE IF steps[i].step = "ForkPoint" THEN
    DisconnectPass(steps, i + 1, [acc EXCEPT !.new_tip = Some(steps[i].header)])
  ELSE DisconnectPass(steps, i + 1, acc)

\* The assertion between the two loops.
ForkPointAssert(acc) == IsSome(acc.last_disconnect_tip) = IsSome(acc.new_tip)

\* new_tip as the connect loop starts with it.
ConnectStartTip(acc, old_hdr) == IF IsSome(acc.new_tip) THEN acc.new_tip ELSE Some(old_hdr)

\* ConnectOrder without the rev(): from the first step to the last.
RECURSIVE ConnectOrderForward(_)
ConnectOrderForward(steps) ==
  IF steps = <<>> THEN <<>>
  ELSE IF Head(steps).step = "ConnectBlock"
    THEN <<Head(steps).header>> \o ConnectOrderForward(Tail(steps))
    ELSE ConnectOrderForward(Tail(steps))

\* The headers of the ConnectBlock steps in the order the second loop
\* visits them: events.drain(..).rev(), from the last step to the first.
RECURSIVE ConnectOrder(_)
ConnectOrder(steps) ==
  IF steps = <<>> THEN <<>>
  ELSE LET last == steps[Len(steps)]
           rest == ConnectOrder(SubSeq(steps, 1, Len(steps) - 1))
       IN IF last.step = "ConnectBlock" THEN <<last.header>> \o rest ELSE rest

(***************************************************************************)
(* SpvClient::update_chain_tip and the poller's classification of a tip.   *)
(***************************************************************************)

SyncOk == [ok |-> TRUE, err |-> "", tip |-> None]
SyncErr(e, tip) == [ok |-> FALSE, err |-> e, tip |-> tip]

\* update_chain_tip that adopts a tip only on Ok.
UpdateChainTipOkOnly(res, tip, best_chain_tip) ==
  IF res.ok THEN [chain_tip |-> best_chain_tip, blocks_connected |-> TRUE]
  ELSE [chain_tip |-> tip, blocks_connected |-> FALSE]

\* update_chain_tip without the guard on the Err((_, Some(chain_tip))) arm.
UpdateChainTipNoGuard(res, tip, best_chain_tip) ==
  IF res.ok THEN [chain_tip |-> best_chain_tip, blocks_connected |-> TRUE]
  ELSE IF IsSome(res.tip) THEN [chain_tip |-> Unwrap(res.tip), blocks_connected |-> TRUE]
  ELSE [chain_tip |-> tip, blocks_connected |-> FALSE]

\* update_chain_tip adopting best_chain_tip in the Err((_, Some(chain_tip))) arm.
UpdateChainTipAdoptsBest(res, tip, best_chain_tip) ==
  IF res.ok THEN [chain_tip |-> best_chain_tip, blocks_connected |-> TRUE]
  ELSE IF IsSome(res.tip) /\ Unwrap(res.tip).block_hash # tip.block_hash THEN
    [chain_tip |-> best_chain_tip, blocks_connected |-> TRUE]
  ELSE [chain_tip |-> tip, blocks_connected |-> FALSE]

\* update_chain_tip keeping the old chain_tip in the Ok arm.
UpdateChainTipKeepsOnOk(res, tip, best_chain_tip) ==
  IF res.ok THEN [chain_tip |-> tip, blocks_connected |-> TRUE]
  ELSE IF IsSome(res.tip) /\ Unwrap(res.tip).block_hash # tip.block_hash THEN
    [chain_tip |-> Unwrap(res.tip), blocks_connected |-> TRUE]
  ELSE [chain_tip |-> tip, blocks_connected |-> FALSE]

\* The match of update_chain_tip on sync_listener's result.
UpdateChainTip(res, tip, best_chain_tip) ==
  IF res.ok THEN [chain_tip |-> best_chain_tip, blocks_connected |-> TRUE]
  ELSE IF IsSome(res.tip) /\ Unwrap(res.tip).block_hash # tip.block_hash THEN
    [chain_tip |-> Unwrap(res.tip), blocks_connected |-> TRUE]
  ELSE [chain_tip |-> tip, blocks_connected |-> FALSE]

Common == [kind |-> "Common", header |-> None]
Better(h) == [kind |-> "Better", header |-> Some(h)]
Worse(h) == [kind |-> "Worse", header |-> Some(h)]

\* Poll::poll_chain_tip for a source whose best block is best.
PollChainTip(best, tip) ==
  IF best.block_hash = tip.block_hash THEN Common
  ELSE IF best.chainwork > tip.chainwork THEN Better(best)
  ELSE Worse(best)

\* The errors a block source can answer a request with.
SourceErrors == {"header not found", "transient"}

\* Block sources: one that serves every header, one without headers
\* (every get_header fails) and one that may fail any request.
SourceModes == {"served", "missing", "flaky"}

\* Poll::look_up_previous_header can return the previous header of subject.
HeaderServed(mode, subject) == subject.height # 0 /\ mode # "missing"

\* The errors Poll::look_up_previous_header can return for subject.
LookUpErrors(mode, subject) ==
  IF subject.height = 0 THEN {"genesis block reached"}
  ELSE IF mode = "served" THEN {}
  ELSE IF mode = "missing" THEN {"header not found"}
  ELSE SourceErrors

PollOk(tip, connected) == [status |-> "Ok", err |-> "", tip |-> tip, blocks_connected |-> connected]
PollErr(e) == [status |-> "Err", err |-> e, tip |-> Common, blocks_connected |-> FALSE]
NoResult == [status |-> "None", err |-> "", tip |-> Common, blocks_connected |-> FALSE]


(***************************************************************************)
(* The block tree as chains of hashes.                                     *)
(***************************************************************************)

\* The hashes of the chain ending at block b, b included.
RECURSIVE Chain(_)
Chain(b) == IF b[2] = 0 THEN {b} ELSE {b} \cup Chain(PrevHash(b))

\* The caches a notifier is constructed with: a run of consecutive headers
\* of one chain (possibly empty).
InitCaches == {CacheOf(Chain(b) \ Chain(a)) : a \in BlockHashes, b \in BlockHashes}
                \cup {CacheOf(Chain(b)) : b \in BlockHashes}

(***************************************************************************)
(* State.                                                                  *)
(***************************************************************************)

VARIABLES
  caller,          \* "poll": SpvClient drives the notifier; "test": sync_listener is called directly
  source_headers,  \* how the block source answers get_header: "served", "missing" or "flaky"
  best_block,      \* the hash the block source reports as its best block
  chain_tip,       \* SpvClient.chain_tip
  header_cache,    \* ChainNotifier.header_cache
  listener,        \* the ChainListener calls made during the current (or last) call
  pc,              \* "idle", or the poller call the running future is suspended at
  find_fork,       \* Some(locals of find_fork) while it awaits the poller
  events,          \* sync_listener's events vector during the connect loop
  idx,             \* position of the connect loop in ConnectOrder(events)
  new_tip,         \* sync_listener's new_tip
  fetched,         \* headers fetch_block was called with in this call
  lookups,         \* headers the poller's look_up_previous_header was called with in this call
  walk,            \* max(current.height, previous.height) at the top of each iteration of find_fork's loop in this call
  sync_result,     \* Some(what the last sync_listener returned)
  result,          \* what the last poll_best_tip returned
  new_header,      \* Some(new_header argument of the current or last sync_listener)
  old_header,      \* Some(old_header argument of the current or last sync_listener)
  cache_before,    \* header_cache when the current (or last) call started
  tip_before,      \* chain_tip when the current (or last) call started
  listener_before, \* tip of the listener's chain when the current (or last) call started
  first            \* Some(arguments and listener calls of the sync a sync back undoes)

locals == <<find_fork, events, idx, new_tip>>
args == <<new_header, old_header, cache_before, tip_before, listener_before, first>>
vars == <<caller, source_headers, best_block, chain_tip, header_cache, listener, pc, find_fork, events, idx,
          new_tip, fetched, lookups, walk, sync_result, result, new_header, old_header,
          cache_before, tip_before, listener_before, first>>

\* The tip of the chain the listener has been told about.
ListenerTip == TipAfterCalls(listener_before, listener)

Genesis == Header(<<0, 0>>)

InitCommon ==
  /\ listener = <<>>
  /\ pc = "idle"
  /\ find_fork = None /\ events = <<>> /\ idx = 0 /\ new_tip = None
  /\ fetched = <<>> /\ lookups = <<>> /\ walk = <<>>
  /\ sync_result = None
  /\ result = NoResult
  /\ new_header = None /\ old_header = None
  /\ first = None

\* SpvClient::new with a best known tip and a cache of headers of its chain.
Init ==
  /\ caller = "poll"
  /\ source_headers = "flaky"
  /\ chain_tip \in Headers
  /\ best_block = chain_tip.block_hash
  /\ header_cache \in {CacheOf(S) : S \in SUBSET Chain(chain_tip.block_hash)}
  /\ cache_before = header_cache
  /\ tip_before = chain_tip
  /\ listener_before = chain_tip.block_hash
  /\ InitCommon

\* A test harness that constructs a ChainNotifier for every sync.
InitSync ==
  /\ caller = "test"
  /\ source_headers = "flaky"
  /\ best_block = <<0, 0>>
  /\ chain_tip = Genesis
  /\ header_cache = CacheOf({})
  /\ cache_before = header_cache
  /\ tip_before = chain_tip
  /\ listener_before = chain_tip.block_hash
  /\ InitCommon

(***************************************************************************)
(* sync_listener between two suspension points.                            *)
(***************************************************************************)

\* Finish with update_chain_tip and poll_best_tip passing the error of a
\* failed sync on to the caller.
FinishPropagate(res, cache2, calls2, best) ==
  /\ pc' = "idle"
  /\ sync_result' = Some(res)
  /\ header_cache' = cache2
  /\ listener' = calls2
  /\ find_fork' = None /\ events' = <<>> /\ idx' = 0 /\ new_tip' = None
  /\ IF caller = "poll"
     THEN LET u == UpdateChainTip(res, chain_tip, best)
          IN /\ chain_tip' = u.chain_tip
             /\ result' = IF res.ok THEN PollOk(Better(best), u.blocks_connected)
                          ELSE PollErr(res.err)
     ELSE UNCHANGED <<chain_tip, result>>

\* sync_listener returns res; when SpvClient is the caller, update_chain_tip
\* matches on it and poll_best_tip returns.
Finish(res, cache2, calls2, best) ==
  /\ pc' = "idle"
  /\ sync_result' = Some(res)
  /\ header_cache' = cache2
  /\ listener' = calls2
  /\ find_fork' = None /\ events' = <<>> /\ idx' = 0 /\ new_tip' = None
  /\ IF caller = "poll"
     THEN LET u == UpdateChainTip(res, chain_tip, best)
          IN /\ chain_tip' = u.chain_tip
             /\ result' = PollOk(Better(best), u.blocks_connected)
     ELSE UNCHANGED <<chain_tip, result>>

\* A failed assert_eq! unwinds out of the call.
Panic(cache2, calls2) ==
  /\ pc' = "panicked"
  /\ header_cache' = cache2
  /\ listener' = calls2
  /\ find_fork' = None /\ events' = <<>> /\ idx' = 0 /\ new_tip' = None
  /\ sync_result' = None
  /\ UNCHANGED <<chain_tip, result>>

\* find_fork returned steps: the disconnect loop, the assertion, and the
\* connect loop up to its first fetch_block.
AfterFindFork(steps, cache, best, old) ==
  LET acc == DisconnectPass(steps, 1, DisconnectPassInit(cache))
      connects == ConnectOrder(steps)
  IN IF ~acc.assert_ok \/ ~ForkPointAssert(acc) THEN
       Panic(acc.header_cache, acc.calls) /\ fetched' = <<>>
     ELSE IF connects = <<>> THEN
       Finish(SyncOk, acc.header_cache, acc.calls, best) /\ fetched' = <<>>
     ELSE
       /\ pc' = "fetch_block"
       /\ header_cache' = acc.header_cache
       /\ listener' = acc.calls
       /\ find_fork' = None
       /\ events' = steps
       /\ idx' = 1
       /\ new_tip' = ConnectStartTip(acc, old)
       /\ fetched' = <<connects[1]>>
       /\ sync_result' = None
       /\ UNCHANGED <<chain_tip, result>>

\* find_fork ran up to f: either it is done or it awaits the poller.
Continue(f, cache, lk, best, old) ==
  IF f.at = "done" THEN
    AfterFindFork(f.steps, cache, best, old) /\ lookups' = lk /\ walk' = f.walk
  ELSE
    /\ pc' = "look_up_previous_header"
    /\ find_fork' = Some(f)
    /\ lookups' = Append(lk, LookupSubject(f))
    /\ walk' = f.walk
    /\ fetched' = <<>>
    /\ header_cache' = cache
    /\ listener' = <<>>
    /\ sync_result' = None
    /\ UNCHANGED <<events, idx, new_tip, chain_tip, result>>

(***************************************************************************)
(* SpvClient::poll_best_tip.                                               *)
(***************************************************************************)

\* poll_best_tip is called and awaits poll_chain_tip.
PollBestTip ==
  /\ caller = "poll"
  /\ pc = "idle"
  /\ pc' = "poll_chain_tip"
  /\ listener' = <<>>
  /\ listener_before' = ListenerTip
  /\ cache_before' = header_cache
  /\ tip_before' = chain_tip
  /\ new_header' = None /\ old_header' = None
  /\ fetched' = <<>> /\ lookups' = <<>> /\ walk' = <<>>
  /\ sync_result' = None
  /\ result' = NoResult
  /\ UNCHANGED <<caller, source_headers, best_block, chain_tip, header_cache, locals, first>>

\* poll_chain_tip fails: the ? operator returns the error.
PollChainTipErr(e) ==
  /\ pc = "poll_chain_tip"
  /\ pc' = "idle"
  /\ result' = PollErr(e)
  /\ UNCHANGED <<caller, source_headers, best_block, chain_tip, header_cache, listener, locals, fetched,
                 lookups, walk, sync_result, args>>

\* PollChainTipCommon with the Common arm evaluating to true.
PollChainTipCommonTrue(b) ==
  /\ pc = "poll_chain_tip"
  /\ best_block' = b
  /\ PollChainTip(Header(b), chain_tip) = Common
  /\ pc' = "idle"
  /\ result' = PollOk(Common, TRUE)
  /\ UNCHANGED <<caller, source_headers, chain_tip, header_cache, listener, locals, fetched,
                 lookups, walk, sync_result, args>>

\* poll_chain_tip finds b to be the source's best block and returns
\* ChainTip::Common.
PollChainTipCommon(b) ==
  /\ pc = "poll_chain_tip"
  /\ best_block' = b
  /\ PollChainTip(Header(b), chain_tip) = Common
  /\ pc' = "idle"
  /\ result' = PollOk(Common, FALSE)
  /\ UNCHANGED <<caller, source_headers, chain_tip, header_cache, listener, locals, fetched,
                 lookups, walk, sync_result, args>>

\* PollChainTipWorse with the Worse arm adopting the polled tip.
PollChainTipWorseAdopts(b) ==
  /\ pc = "poll_chain_tip"
  /\ best_block' = b
  /\ PollChainTip(Header(b), chain_tip).kind = "Worse"
  /\ pc' = "idle"
  /\ chain_tip' = Header(b)
  /\ result' = PollOk(Worse(Header(b)), FALSE)
  /\ UNCHANGED <<caller, source_headers, header_cache, listener, locals, fetched,
                 lookups, walk, sync_result, args>>

\* poll_chain_tip returns ChainTip::Worse.
PollChainTipWorse(b) ==
  /\ pc = "poll_chain_tip"
  /\ best_block' = b
  /\ PollChainTip(Header(b), chain_tip).kind = "Worse"
  /\ pc' = "idle"
  /\ result' = PollOk(Worse(Header(b)), FALSE)
  /\ UNCHANGED <<caller, source_headers, chain_tip, header_cache, listener, locals, fetched,
                 lookups, walk, sync_result, args>>

\* poll_chain_tip returns ChainTip::Better: update_chain_tip calls
\* sync_listener, which runs up to its first poller call.
PollChainTipBetter(b) ==
  /\ pc = "poll_chain_tip"
  /\ best_block' = b
  /\ PollChainTip(Header(b), chain_tip).kind = "Better"
  /\ LET best == Header(b)
     IN /\ new_header' = Some(best)
        /\ old_header' = Some(chain_tip)
        /\ Continue(FindForkRun(header_cache, FindForkInit(best, chain_tip)),
                    header_cache, <<>>, best, chain_tip)
  /\ UNCHANGED <<caller, source_headers, cache_before, tip_before, listener_before, first>>

(***************************************************************************)
(* The poller's answers to look_up_previous_header and fetch_block.        *)
(***************************************************************************)

\* The poller returns the previous header and find_fork runs on.
LookUpPreviousHeaderOk ==
  /\ pc = "look_up_previous_header"
  /\ LET f == Unwrap(find_fork)
         subject == LookupSubject(f)
     IN /\ HeaderServed(source_headers, subject)
        /\ Continue(FindForkRun(header_cache, FindForkDeliver(f, Header(subject.prev_blockhash))),
                    header_cache, lookups, Unwrap(new_header), Unwrap(old_header))
  /\ UNCHANGED <<caller, source_headers, best_block, args>>

\* LookUpPreviousHeaderErr with the error mapped to (e, Some(old_header)).
LookUpPreviousHeaderErrOldTip(e) ==
  /\ pc = "look_up_previous_header"
  /\ LET subject == LookupSubject(Unwrap(find_fork))
     IN e \in LookUpErrors(source_headers, subject)
  /\ Finish(SyncErr(e, old_header), header_cache, listener, Unwrap(new_header))
  /\ UNCHANGED <<caller, source_headers, best_block, fetched, lookups, walk, args>>

\* The poller fails: find_fork's ? returns the error, sync_listener maps it
\* to (e, None).
LookUpPreviousHeaderErr(e) ==
  /\ pc = "look_up_previous_header"
  /\ LET subject == LookupSubject(Unwrap(find_fork))
     IN e \in LookUpErrors(source_headers, subject)
  /\ Finish(SyncErr(e, None), header_cache, listener, Unwrap(new_header))
  /\ UNCHANGED <<caller, source_headers, best_block, fetched, lookups, walk, args>>

\* ConnectArm caching the parent's header under the connected block's hash.
ConnectArmCachesParent(cache, calls, tip, header) ==
  [header_cache |-> CacheInsert(cache, header.block_hash, Header(header.prev_blockhash)),
   calls |-> Append(calls, BlockConnected(header)),
   new_tip |-> Some(header)]

\* ConnectArm without the update of new_tip.
ConnectArmKeepTip(cache, calls, tip, header) ==
  [header_cache |-> CacheInsert(cache, header.block_hash, header),
   calls |-> Append(calls, BlockConnected(header)),
   new_tip |-> tip]

\* The ConnectBlock arm of the second loop after fetch_block returned.
ConnectArm(cache, calls, tip, header) ==
  [header_cache |-> CacheInsert(cache, header.block_hash, header),
   calls |-> Append(calls, BlockConnected(header)),
   new_tip |-> Some(header)]

\* fetch_block returns the block: it is connected and the loop goes on to
\* the next fetch_block or to Ok(()).
FetchBlockOk ==
  /\ pc = "fetch_block"
  /\ LET connects == ConnectOrder(events)
         c == ConnectArm(header_cache, listener, new_tip, connects[idx])
     IN IF idx = Len(connects) THEN
          Finish(SyncOk, c.header_cache, c.calls, Unwrap(new_header)) /\ UNCHANGED fetched
        ELSE
          /\ header_cache' = c.header_cache
          /\ listener' = c.calls
          /\ new_tip' = c.new_tip
          /\ idx' = idx + 1
          /\ fetched' = Append(fetched, connects[idx + 1])
          /\ UNCHANGED <<pc, find_fork, events, sync_result, chain_tip, result>>
  /\ UNCHANGED <<caller, source_headers, best_block, lookups, walk, args>>

\* FetchBlockErr returning (e, None).
FetchBlockErrNone(e) ==
  /\ pc = "fetch_block"
  /\ e \in SourceErrors
  /\ Finish(SyncErr(e, None), header_cache, listener, Unwrap(new_header))
  /\ UNCHANGED <<caller, source_headers, best_block, fetched, lookups, walk, args>>

\* fetch_block fails: sync_listener returns (e, new_tip).
FetchBlockErr(e) ==
  /\ pc = "fetch_block"
  /\ e \in SourceErrors
  /\ Finish(SyncErr(e, new_tip), header_cache, listener, Unwrap(new_header))
  /\ UNCHANGED <<caller, source_headers, best_block, fetched, lookups, walk, args>>

\* The caller drops the future at the poller call it is suspended at.
Drop ==
  /\ pc \in {"poll_chain_tip", "look_up_previous_header", "fetch_block"}
  /\ pc' = "idle"
  /\ find_fork' = None /\ events' = <<>> /\ idx' = 0 /\ new_tip' = None
  /\ result' = [NoResult EXCEPT !.status = "Dropped"]
  /\ UNCHANGED <<caller, source_headers, best_block, chain_tip, header_cache, listener, fetched, lookups, walk,
                 sync_result, args>>

(***************************************************************************)
(* Direct calls of ChainNotifier::sync_listener (chain_notifier_tests).    *)
(***************************************************************************)

\* A notifier is constructed over cache and synced from old to new with a
\* fresh listener.
SyncListener(cache, new, old) ==
  /\ caller = "test"
  /\ pc = "idle"
  /\ new_header = None
  /\ new_header' = Some(new)
  /\ old_header' = Some(old)
  /\ cache_before' = cache
  /\ listener_before' = old.block_hash
  /\ first' = None
  /\ Continue(FindForkRun(cache, FindForkInit(new, old)), cache, <<>>, new, old)
  /\ UNCHANGED <<caller, best_block, tip_before>>

\* After a sync that returned Ok, the same notifier is synced back from the
\* new header to the old one with a fresh listener.
SyncBack ==
  /\ caller = "test"
  /\ pc = "idle"
  /\ first = None
  /\ sync_result = Some(SyncOk)
  /\ LET new == Unwrap(old_header)
         old == Unwrap(new_header)
     IN /\ new_header' = Some(new)
        /\ old_header' = Some(old)
        /\ first' = Some([new_header |-> old, old_header |-> new, listener |-> listener])
        /\ cache_before' = header_cache
        /\ listener_before' = old.block_hash
        /\ Continue(FindForkRun(header_cache, FindForkInit(new, old)), header_cache, <<>>, new, old)
  /\ UNCHANGED <<caller, source_headers, best_block, tip_before>>

SyncReturns ==
  \/ LookUpPreviousHeaderOk
  \/ \E e \in SourceErrors \cup {"genesis block reached"} : LookUpPreviousHeaderErr(e)
  \/ FetchBlockOk
  \/ \E e \in SourceErrors : FetchBlockErr(e)
  \/ Drop

Next ==
  \/ PollBestTip
  \/ \E e \in SourceErrors : PollChainTipErr(e)
  \/ \E b \in BlockHashes : PollChainTipCommon(b)
  \/ \E b \in BlockHashes : PollChainTipWorse(b)
  \/ \E b \in BlockHashes : PollChainTipBetter(b)
  \/ SyncReturns

Spec == Init /\ [][Next]_vars

\* A test: any block source, any cache and any two headers of the block tree.
SyncListenerTest ==
  /\ pc = "idle"
  /\ new_header = None
  /\ source_headers' \in SourceModes
  /\ \E cache \in InitCaches, new \in Headers, old \in Headers : SyncListener(cache, new, old)

\* Polls that each run to completion: no future is dropped.
NextRun ==
  \/ PollBestTip
  \/ \E e \in SourceErrors : PollChainTipErr(e)
  \/ \E b \in BlockHashes : PollChainTipCommon(b)
  \/ \E b \in BlockHashes : PollChainTipWorse(b)
  \/ \E b \in BlockHashes : PollChainTipBetter(b)
  \/ LookUpPreviousHeaderOk
  \/ \E e \in SourceErrors \cup {"genesis block reached"} : LookUpPreviousHeaderErr(e)
  \/ FetchBlockOk
  \/ \E e \in SourceErrors : FetchBlockErr(e)

SpecRun == Init /\ [][NextRun]_vars

\* A client whose source has a best block with more chainwork than
\* chain_tip, on a chain that shares its genesis block with chain_tip's.
InitLive ==
  /\ caller = "poll"
  /\ source_headers = "flaky"
  /\ chain_tip \in Headers
  /\ best_block \in {b \in BlockHashes :
                       /\ PollChainTip(Header(b), chain_tip).kind = "Better"
                       /\ Chain(b) \cap Chain(chain_tip.block_hash) # {}}
  /\ header_cache \in {CacheOf(S) : S \in SUBSET Chain(chain_tip.block_hash)}
  /\ cache_before = header_cache
  /\ tip_before = chain_tip
  /\ listener_before = chain_tip.block_hash
  /\ InitCommon

\* Polls that each run to completion against a source whose best block
\* stays the same.
NextLive ==
  \/ PollBestTip
  \/ \E e \in SourceErrors : PollChainTipErr(e)
  \/ PollChainTipCommon(best_block)
  \/ PollChainTipBetter(best_block)
  \/ LookUpPreviousHeaderOk
  \/ \E e \in SourceErrors \cup {"genesis block reached"} : LookUpPreviousHeaderErr(e)
  \/ FetchBlockOk
  \/ \E e \in SourceErrors : FetchBlockErr(e)

\* The most look_up_previous_header calls find_fork makes in a poll: the
\* best block has more chainwork than chain_tip, so that at most one header
\* per height and the fork point are looked up.
MaxLookups == MaxHeight + 1

\* ENABLED LookUpPreviousHeaderOk.
LookUpPreviousHeaderOkEnabled ==
  /\ pc = "look_up_previous_header"
  /\ HeaderServed(source_headers, LookupSubject(Unwrap(find_fork)))

\* The caller polls again and again (weak fairness of PollBestTip), and
\* each poller call, repeated often enough, succeeds (strong fairness of
\* poll_chain_tip returning a tip, of the k-th look_up_previous_header of a
\* sync returning a header and of fetch_block returning a block). The
\* conditions on poll_chain_tip and look_up_previous_header are
\* SF_vars written out, <>[]~ENABLED <<A>>_vars \/ []<><<A>>_vars, with the
\* enabling condition of the action in place of ENABLED.
LiveFairness ==
  /\ WF_vars(PollBestTip)
  /\ \/ <>[](pc # "poll_chain_tip")
     \/ []<><<PollChainTipBetter(best_block) \/ PollChainTipCommon(best_block)>>_vars
  /\ \A k \in 1..MaxLookups :
       \/ <>[]~(LookUpPreviousHeaderOkEnabled /\ Len(lookups) = k)
       \/ []<><<LookUpPreviousHeaderOk /\ Len(lookups) = k>>_vars
  /\ SF_vars(FetchBlockOk)

SpecLive == InitLive /\ [][NextLive]_vars /\ LiveFairness

NextSync ==
  \/ SyncListenerTest
  \/ SyncBack
  \/ SyncReturns

SpecSync == InitSync /\ [][NextSync]_vars


(***************************************************************************)
(* Properties.                                                             *)
(***************************************************************************)

IsConnect(c) == c.call = "block_connected"
IsDisconnect(c) == c.call = "block_disconnected"

ConnectedHashes(calls) == {calls[i].block_hash : i \in {j \in 1 .. Len(calls) : IsConnect(calls[j])}}
DisconnectedHashes(calls) == {calls[i].block_hash : i \in {j \in 1 .. Len(calls) : IsDisconnect(calls[j])}}

NumConnects(calls) == Cardinality({j \in 1 .. Len(calls) : IsConnect(calls[j])})
NumDisconnects(calls) == Cardinality({j \in 1 .. Len(calls) : IsDisconnect(calls[j])})

\* sync_listener has returned (or is running) with these arguments.
OldHash == Unwrap(old_header).block_hash
NewHash == Unwrap(new_header).block_hash

Returned == pc = "idle" /\ IsSome(sync_result)
ReturnedOk == pc = "idle" /\ sync_result = Some(SyncOk)

\* C1: in every sync_listener call, finished or not, successful or failing,
\* every block_disconnected call precedes every block_connected call, the
\* heights of the disconnects strictly descend and those of the connects
\* strictly ascend.
EventOrder ==
  \A i \in 1 .. Len(listener) : \A j \in 1 .. Len(listener) :
    i < j =>
      /\ ~(IsConnect(listener[i]) /\ IsDisconnect(listener[j]))
      /\ (IsDisconnect(listener[i]) /\ IsDisconnect(listener[j])
            => listener[i].height > listener[j].height)
      /\ (IsConnect(listener[i]) /\ IsConnect(listener[j])
            => listener[i].height < listener[j].height)

\* A sync has returned after two disconnects and two connects.
EventOrderWitness ==
  /\ caller = "test"
  /\ Returned
  /\ NumDisconnects(listener) >= 2
  /\ NumConnects(listener) >= 2

\* C2: a sync_listener call between two headers with a common ancestor that
\* returns Ok disconnects exactly the headers of old's chain above the fork
\* point and connects exactly those of new's chain above it, and no header
\* is both disconnected and connected.
ShortestPath ==
  (caller = "test" /\ ReturnedOk /\ Chain(OldHash) \cap Chain(NewHash) # {}) =>
    /\ DisconnectedHashes(listener) = Chain(OldHash) \ Chain(NewHash)
    /\ ConnectedHashes(listener) = Chain(NewHash) \ Chain(OldHash)
    /\ DisconnectedHashes(listener) \cap ConnectedHashes(listener) = {}

\* The calls of a sync undone: reversed, connects and disconnects swapped.
RECURSIVE ReversePairing(_)
ReversePairing(calls) ==
  IF calls = <<>> THEN <<>>
  ELSE LET c == calls[Len(calls)]
       IN <<[c EXCEPT !.call = IF IsConnect(c) THEN "block_disconnected" ELSE "block_connected"]>>
            \o ReversePairing(SubSeq(calls, 1, Len(calls) - 1))

\* C3: when a sync from A to B and the sync back from B to A both return
\* Ok, the calls of the second are those of the first reversed, with
\* connects and disconnects swapped.
RoundTrip ==
  (caller = "test" /\ ReturnedOk /\ IsSome(first)) =>
    listener = ReversePairing(Unwrap(first).listener)


\* C4: whenever no poll is running, in a sequence of polls that each ran to
\* completion, chain_tip is the tip of the chain the listener has been told
\* about: the new tip after a full sync, the header the last callback left
\* the listener at (the last connected header, or the fork point when only
\* disconnects were delivered) after a partial sync, and the old tip when
\* no callback fired.
TipCoherence ==
  (caller = "poll" /\ pc = "idle") =>
    /\ chain_tip.block_hash = ListenerTip
    /\ (sync_result = Some(SyncOk) => chain_tip = Unwrap(new_header))
    /\ (IsSome(sync_result) /\ ~Unwrap(sync_result).ok /\ listener # <<>>
          => chain_tip = Header(TipAfterCall(listener[Len(listener)])))
    /\ (listener = <<>> => chain_tip = tip_before)

\* A poll ended in a partial sync that delivered disconnects only.
TipCoherenceWitness ==
  /\ caller = "poll" /\ pc = "idle"
  /\ IsSome(sync_result) /\ ~Unwrap(sync_result).ok
  /\ NumDisconnects(listener) >= 1
  /\ NumConnects(listener) = 0
  /\ chain_tip # tip_before

\* The listener calls a plan makes for its DisconnectBlock steps, in order.
RECURSIVE PlannedDisconnects(_)
PlannedDisconnects(steps) ==
  IF steps = <<>> THEN <<>>
  ELSE IF Head(steps).step = "DisconnectBlock"
    THEN <<BlockDisconnected(Head(steps).header)>> \o PlannedDisconnects(Tail(steps))
    ELSE PlannedDisconnects(Tail(steps))

\* The header of the plan's ForkPoint step, or the given header if it has none.
RECURSIVE PlannedForkPoint(_, _)
PlannedForkPoint(steps, old) ==
  IF steps = <<>> THEN old
  ELSE IF Head(steps).step = "ForkPoint" THEN Head(steps).header
  ELSE PlannedForkPoint(Tail(steps), old)

\* C5: when sync_listener returns Err((e, Some(partial))) because a
\* fetch_block failed, the listener has received every planned disconnect
\* and exactly the connects that were fetched before, partial is the last of
\* them (the fork point or old_header if there is none) and the tip of the
\* listener's chain, no connected header is above partial, and the failing
\* step makes no callback, no fetch and no cache mutation.
PartialCommit ==
  [][(pc = "fetch_block" /\ pc' = "idle" /\ IsSome(sync_result') /\ ~Unwrap(sync_result').ok) =>
      LET r == Unwrap(sync_result')
          connects == ConnectOrder(events)
      IN /\ IsSome(r.tip)
         /\ SelectSeq(listener', IsDisconnect) = PlannedDisconnects(events)
         /\ SelectSeq(listener', IsConnect) = [k \in 1 .. (idx - 1) |-> BlockConnected(connects[k])]
         /\ Unwrap(r.tip) = IF idx > 1 THEN connects[idx - 1]
                            ELSE PlannedForkPoint(events, Unwrap(old_header))
         /\ Unwrap(r.tip).block_hash = TipAfterCalls(OldHash, listener')
         /\ \A i \in 1 .. Len(listener') :
              IsConnect(listener'[i]) => listener'[i].height <= Unwrap(r.tip).height
         /\ listener' = listener
         /\ header_cache' = header_cache
         /\ fetched' = fetched]_vars

\* A sync returned a partial tip after disconnects and a connect.
PartialCommitWitness ==
  /\ caller = "test" /\ Returned
  /\ ~Unwrap(sync_result).ok
  /\ IsSome(Unwrap(sync_result).tip)
  /\ NumDisconnects(listener) >= 1
  /\ NumConnects(listener) >= 1
  /\ Len(fetched) = NumConnects(listener) + 1

\* C6: when a header lookup of find_fork fails, sync_listener returns
\* Err((e, None)), no listener callback has fired and the cache is as it
\* was before the call.
LookupFailure ==
  [][(pc = "look_up_previous_header" /\ pc' = "idle" /\ result'.status # "Dropped") =>
      /\ IsSome(sync_result')
      /\ ~Unwrap(sync_result').ok
      /\ Unwrap(sync_result').tip = None
      /\ Unwrap(sync_result').err \in SourceErrors \cup {"genesis block reached"}
      /\ listener' = <<>>
      /\ fetched' = <<>>
      /\ header_cache' = cache_before]_vars

\* A lookup failed after the walk had collected steps and made lookups.
LookupFailureWitness ==
  /\ caller = "test" /\ Returned
  /\ ~Unwrap(sync_result).ok
  /\ Unwrap(sync_result).tip = None
  /\ Len(lookups) >= 3
  /\ cache_before # CacheOf({})

\* C7: after sync_listener returns Ok, every header block_connected was
\* called for in this sync is in the cache under its hash, and every header
\* block_disconnected was called for in this sync is not in the cache.
CacheCoherence ==
  (caller = "test" /\ ReturnedOk) =>
    /\ \A b \in ConnectedHashes(listener) :
         b \in DOMAIN header_cache /\ header_cache[b] = Header(b)
    /\ \A b \in DisconnectedHashes(listener) : b \notin DOMAIN header_cache

\* C8: at every suspension point of a poll, and after a poll that was
\* dropped there or returned, no header whose block_disconnected was
\* delivered in this poll is in the cache and every header whose
\* block_connected was delivered in this poll is.
SuspensionCoherence ==
  caller = "poll" =>
    /\ \A b \in ConnectedHashes(listener) :
         b \in DOMAIN header_cache /\ header_cache[b] = Header(b)
    /\ \A b \in DisconnectedHashes(listener) : b \notin DOMAIN header_cache

\* A poll was dropped at a fetch_block after it had disconnected a cached
\* header and connected a block.
SuspensionCoherenceWitness ==
  /\ caller = "poll" /\ pc = "idle"
  /\ result.status = "Dropped"
  /\ NumConnects(listener) >= 1
  /\ DisconnectedHashes(listener) \cap DOMAIN cache_before # {}

\* C9: a poll that found a Better tip returns blocks_connected = true if
\* and only if a listener callback fired during it; when it returns false,
\* chain_tip, the listener's chain and the cache are as before the poll.
BlocksConnectedIff ==
  (pc = "idle" /\ result.status = "Ok" /\ result.tip.kind = "Better") =>
    /\ result.blocks_connected <=> listener # <<>>
    /\ ~result.blocks_connected =>
         /\ chain_tip = tip_before
         /\ header_cache = cache_before
         /\ ListenerTip = listener_before

\* A Better poll returned false because its first fetch_block failed.
BlocksConnectedIffWitness ==
  /\ pc = "idle" /\ result.status = "Ok" /\ result.tip.kind = "Better"
  /\ ~result.blocks_connected
  /\ IsSome(sync_result) /\ Unwrap(sync_result).tip = Some(tip_before)
  /\ Len(fetched) = 1

\* C10: poll_best_tip returns Err when poll_chain_tip fails and only then:
\* no sync was started, no callback fired and chain_tip and the cache are
\* unchanged; a sync_listener that fails makes poll_best_tip return
\* Ok((Better(t), _)).
PollErrOnlyFromPoller ==
  [][/\ (pc = "poll_chain_tip" /\ pc' = "idle" /\ result'.status \notin {"Ok", "Dropped"})
          => result'.status = "Err" /\ result'.err \in SourceErrors
     /\ result'.status = "Err" =>
          /\ new_header' = None /\ sync_result' = None
          /\ lookups' = <<>> /\ fetched' = <<>> /\ listener' = <<>>
          /\ chain_tip' = tip_before /\ header_cache' = cache_before
     /\ (caller = "poll" /\ pc' = "idle" /\ IsSome(sync_result') /\ ~Unwrap(sync_result').ok)
          => result'.status = "Ok" /\ result'.tip = Better(Unwrap(new_header'))]_vars

\* poll_best_tip returned the poller's error to a client with a cache.
PollErrOnlyFromPollerWitness ==
  /\ pc = "idle" /\ result.status = "Err"
  /\ result.err = "header not found"
  /\ cache_before # CacheOf({})


\* C11: when poll_chain_tip returns Common, poll_best_tip returns
\* (Common, false) without a listener callback, a fetch_block or a header
\* lookup, and chain_tip and the cache are unchanged.
NoOpOnCommon ==
  [][(/\ pc = "poll_chain_tip"
      /\ result'.status \notin {"Err", "Dropped"}
      /\ PollChainTip(Header(best_block'), chain_tip) = Common) =>
      /\ pc' = "idle"
      /\ result' = PollOk(Common, FALSE)
      /\ listener' = <<>> /\ fetched' = <<>> /\ lookups' = <<>>
      /\ new_header' = None /\ sync_result' = None
      /\ chain_tip' = chain_tip
      /\ header_cache' = header_cache]_vars

\* A poll of a client with cached headers returned Common.
NoOpOnCommonWitness ==
  /\ pc = "idle"
  /\ result = PollOk(Common, FALSE)
  /\ best_block = chain_tip.block_hash
  /\ header_cache # CacheOf({})

\* C12: when poll_chain_tip returns Worse(t), poll_best_tip returns
\* (Worse(t), false) without a listener callback, and chain_tip and the
\* cache are unchanged.
WorseIsInert ==
  [][(/\ pc = "poll_chain_tip"
      /\ result'.status \notin {"Err", "Dropped"}
      /\ PollChainTip(Header(best_block'), chain_tip).kind = "Worse") =>
      /\ pc' = "idle"
      /\ result' = PollOk(Worse(Header(best_block')), FALSE)
      /\ listener' = <<>> /\ fetched' = <<>> /\ lookups' = <<>>
      /\ new_header' = None /\ sync_result' = None
      /\ chain_tip' = chain_tip
      /\ header_cache' = header_cache]_vars

\* A poll returned a Worse tip of another branch with at least as many blocks.
WorseIsInertWitness ==
  /\ pc = "idle"
  /\ result.status = "Ok" /\ result.tip.kind = "Worse"
  /\ chain_tip = tip_before
  /\ best_block \notin Chain(chain_tip.block_hash)
  /\ best_block[2] >= chain_tip.height
  /\ header_cache # CacheOf({})

\* The two headers of the call have no common ancestor.
DifferentGenesis == Chain(OldHash) \cap Chain(NewHash) = {}

FindForkDone == pc = "fetch_block"

\* find_fork of the current call has returned Err.
FindForkFailed == Returned /\ ~Unwrap(sync_result).ok /\ Unwrap(sync_result).tip = None

\* C14: find_fork terminates for every pair of headers of the block tree:
\* max(current.height, previous.height) at the top of the loop starts at the
\* larger of the two heights, strictly decreases from each iteration to the
\* next and is never negative, so that the loop has at most that many
\* iterations plus one; it ends by the single-block-extension fast path (the
\* last step connects a child of previous), by the fork fast path (the last
\* step is the ForkPoint) or by the error of the last lookup.
FindForkTerminates ==
  (caller = "test" /\ IsSome(new_header) /\ walk # <<>>) =>
    /\ walk[1] = MaxOf(Unwrap(new_header).height, Unwrap(old_header).height)
    /\ \A i \in 1..Len(walk) : walk[i] >= 0
    /\ \A i \in 1..(Len(walk) - 1) : walk[i + 1] < walk[i]
    /\ Len(walk) <= MaxOf(Unwrap(new_header).height, Unwrap(old_header).height) + 1
    /\ pc = "look_up_previous_header" =>
         LET f == Unwrap(find_fork)
         IN /\ f.walk = walk
            /\ walk[Len(walk)] = IF f.at = "fork_point"
                                   THEN MaxOf(f.current.height, f.previous.height)
                                   ELSE MaxOf(f.current_height, f.previous_height)
    /\ FindForkDone =>
         LET last == events[Len(events)]
         IN \/ last.step = "ForkPoint"
            \/ /\ last.step = "ConnectBlock"
               /\ last.header.height = walk[Len(walk)]
               /\ \A i \in 1..Len(events) : events[i].step # "ForkPoint"
    /\ FindForkFailed =>
         /\ lookups # <<>>
         /\ Unwrap(sync_result).err \in LookUpErrors(source_headers, lookups[Len(lookups)])

\* The general walk ran before the fork fast path ended the loop.
FindForkTerminatesWitness ==
  /\ caller = "test" /\ FindForkDone
  /\ Len(walk) >= 2
  /\ events[Len(events)].step = "ForkPoint"
  /\ Unwrap(new_header).height # Unwrap(old_header).height
  /\ NewHash \notin Chain(OldHash)
  /\ lookups # <<>>

\* The headers of the steps of one kind, in the order of the step list.
StepHeaders(steps, kind) ==
  LET sel == SelectSeq(steps, LAMBDA st : st.step = kind)
  IN [i \in 1..Len(sel) |-> sel[i].header]

\* The heights of a sequence of headers strictly descend.
StrictlyDescending(headers) ==
  \A i \in 1..(Len(headers) - 1) : headers[i + 1].height < headers[i].height

\* Two different headers with the same parent.
Siblings(a, b) == a # b /\ a.prev_blockhash = b.prev_blockhash

\* C15: in every step list returned by find_fork the DisconnectBlock entries
\* strictly descend in height from old_header, the ConnectBlock entries
\* strictly descend in height from new_header, and a ForkPoint appears at
\* most once, as the last entry, directly after a DisconnectBlock and a
\* ConnectBlock of two sibling headers whose parent it is.
StepListShape ==
  (caller = "test" /\ FindForkDone) =>
    LET disconnects == StepHeaders(events, "DisconnectBlock")
        connects == StepHeaders(events, "ConnectBlock")
        fork_points == StepHeaders(events, "ForkPoint")
        n == Len(events)
    IN /\ StrictlyDescending(disconnects)
       /\ disconnects # <<>> => disconnects[1] = Unwrap(old_header)
       /\ StrictlyDescending(connects)
       /\ connects # <<>> => connects[1] = Unwrap(new_header)
       /\ Len(fork_points) <= 1
       /\ fork_points # <<>> =>
            /\ n >= 3
            /\ events[n].step = "ForkPoint"
            /\ events[n - 2].step = "DisconnectBlock"
            /\ events[n - 1].step = "ConnectBlock"
            /\ Siblings(events[n - 2].header, events[n - 1].header)
            /\ events[n].header.block_hash = events[n - 1].header.prev_blockhash

\* C16: no assertion of sync_listener fails for a step list find_fork can
\* return: the call never panics, the step list has a ForkPoint if and only
\* if it has a DisconnectBlock (last_disconnect_tip.is_some() ==
\* new_tip.is_some() after the first loop), and the ForkPoint's block hash is
\* the prev_blockhash of the last disconnected header.
AssertionsHold ==
  /\ pc # "panicked"
  /\ FindForkDone =>
       LET disconnects == StepHeaders(events, "DisconnectBlock")
           fork_points == StepHeaders(events, "ForkPoint")
           acc == DisconnectPass(events, 1, DisconnectPassInit(cache_before))
       IN /\ (fork_points # <<>>) <=> (disconnects # <<>>)
          /\ fork_points # <<>> =>
               fork_points[1].block_hash = disconnects[Len(disconnects)].prev_blockhash
          /\ acc.assert_ok
          /\ ForkPointAssert(acc)
          /\ IsSome(acc.new_tip) =>
               Unwrap(acc.new_tip).block_hash = Unwrap(acc.last_disconnect_tip)
          /\ listener # <<>> => Unwrap(new_tip).block_hash = TipAfterCalls(OldHash, listener)

\* The general walk disconnected a block before the fork fast path fired.
AssertionsHoldWitness ==
  /\ FindForkDone
  /\ Len(StepHeaders(events, "DisconnectBlock")) >= 2
  /\ StepHeaders(events, "ForkPoint") # <<>>
  /\ NewHash \notin Chain(OldHash)
  /\ Len(listener) >= 2

\* find_fork run to its end over a cache and a block source that answers
\* every header lookup the same way: the locals when it returns, at "done"
\* for Ok and at the failing lookup for Err.
RECURSIVE FindForkWith(_, _, _)
FindForkWith(mode, cache, f) ==
  LET g == FindForkRun(cache, f)
  IN IF g.at = "done" THEN g
     ELSE IF HeaderServed(mode, LookupSubject(g))
       THEN FindForkWith(mode, cache, FindForkDeliver(g, Header(LookupSubject(g).prev_blockhash)))
       ELSE g

\* The listener calls of a sync_listener call that executes steps in full.
RECURSIVE ConnectCalls(_)
ConnectCalls(headers) ==
  IF headers = <<>> THEN <<>>
  ELSE <<BlockConnected(Head(headers))>> \o ConnectCalls(Tail(headers))

PlannedCalls(steps) == PlannedDisconnects(steps) \o ConnectCalls(ConnectOrder(steps))

IsPrefix(s, t) == Len(s) <= Len(t) /\ s = SubSeq(t, 1, Len(s))

\* Every poller lookup of the call was for a header whose previous header
\* the cache does not hold.
LookupsAreMisses ==
  \A i \in 1..Len(lookups) : CacheGet(cache_before, lookups[i].prev_blockhash) = None

\* C17: for fixed old_header, new_header and block source (one that answers
\* a header lookup the same way every time), the result of find_fork is the
\* one the empty cache gives, whatever consistent cache the notifier holds:
\* the same step list or the same error; and the poller's
\* look_up_previous_header is called only for a header whose prev_blockhash
\* is not in the cache.
CacheIsAdvisory ==
  (caller = "test" /\ IsSome(new_header) /\ source_headers \in {"served", "missing"}) =>
    LET empty == FindForkWith(source_headers, CacheOf({}),
                              FindForkInit(Unwrap(new_header), Unwrap(old_header)))
    IN /\ LookupsAreMisses
       /\ FindForkDone => empty.at = "done" /\ empty.steps = events
       /\ FindForkFailed =>
            /\ empty.at # "done"
            /\ Unwrap(sync_result).err \in LookUpErrors(source_headers, LookupSubject(empty))

\* C17, amended: with a block source that serves every header the step list
\* or error of find_fork, the listener calls and the result of sync_listener
\* are those the empty cache gives, whatever consistent cache the notifier
\* holds; with any block source a find_fork that returns Ok returns the step
\* list the empty cache gives with a serving source, and the poller's
\* look_up_previous_header is called only for a header whose prev_blockhash
\* is not in the cache.
CacheIsAdvisoryServed ==
  (caller = "test" /\ IsSome(new_header)) =>
    LET empty == FindForkWith("served", CacheOf({}),
                              FindForkInit(Unwrap(new_header), Unwrap(old_header)))
    IN /\ LookupsAreMisses
       /\ FindForkDone => empty.at = "done" /\ empty.steps = events
       /\ (source_headers = "served" /\ FindForkFailed) =>
            /\ empty.at # "done"
            /\ Unwrap(sync_result).err \in LookUpErrors("served", LookupSubject(empty))
       /\ empty.at = "done" => IsPrefix(listener, PlannedCalls(empty.steps))
       /\ empty.at # "done" => listener = <<>>
       /\ ReturnedOk => listener = PlannedCalls(empty.steps)

\* A call that found some previous headers in its cache and asked the
\* poller for others.
CacheIsAdvisoryServedWitness ==
  /\ caller = "test" /\ ReturnedOk
  /\ source_headers = "served"
  /\ cache_before # CacheOf({})
  /\ lookups # <<>>
  /\ Len(lookups) < Len(walk)
  /\ Len(listener) >= 3
  /\ NewHash \notin Chain(OldHash)

\* C18: whenever sync_listener returns Err((e, tip)), tip is Some(header) if
\* and only if find_fork had succeeded and the failing call was fetch_block
\* (the transition is valid: the headers have a common ancestor and the tip
\* returned is on new_header's chain), and tip is None if and only if
\* find_fork failed, the failing call being look_up_previous_header.
ErrTipTellsPhase ==
  [][(pc # "idle" /\ pc' = "idle" /\ IsSome(sync_result') /\ ~Unwrap(sync_result').ok) =>
       LET tip == Unwrap(sync_result').tip
       IN /\ IsSome(tip) <=> pc = "fetch_block"
          /\ tip = None <=> pc = "look_up_previous_header"
          /\ IsSome(tip) <=> fetched' # <<>>
          /\ IsSome(tip) =>
               /\ Chain(OldHash) \cap Chain(NewHash) # {}
               /\ Unwrap(tip).block_hash \in Chain(NewHash)
               /\ tip = new_tip]_vars

\* A fetch_block failed after a block had been connected.
ErrTipTellsPhaseWitness ==
  /\ caller = "test" /\ Returned
  /\ ~Unwrap(sync_result).ok
  /\ IsSome(Unwrap(sync_result).tip)
  /\ Len(fetched) >= 2
  /\ lookups # <<>>
  /\ NewHash \notin Chain(OldHash)

\* Replayed on a listener whose chain ends at tip, every call pops the tip
\* or pushes a child of the tip.
RECURSIVE Disciplined(_, _)
Disciplined(tip, calls) ==
  IF calls = <<>> THEN TRUE
  ELSE LET c == Head(calls)
       IN /\ IF IsDisconnect(c)
             THEN c.block_hash = tip
             ELSE c.prev_blockhash = tip /\ c.height = Header(tip).height + 1
          /\ Disciplined(TipAfterCall(c), Tail(calls))

\* C19: across polls that each run to completion the listener's calls obey
\* stack discipline: every block_disconnected is for the header that is the
\* listener's current tip, and every block_connected is for a block whose
\* prev_blockhash is the listener's current tip and whose height is the
\* tip's height plus one; the listener's tip carries over from each poll to
\* the next.
StackDiscipline ==
  caller = "poll" => Disciplined(listener_before, listener)

\* A completed poll reorganised the listener from one branch to another.
StackDisciplineWitness ==
  /\ caller = "poll" /\ pc = "idle"
  /\ sync_result = Some(SyncOk)
  /\ NumDisconnects(listener) >= 1 /\ NumConnects(listener) >= 2
  /\ chain_tip.block_hash = ListenerTip
  /\ chain_tip # tip_before

\* C20: after a poll_best_tip whose future was dropped at a suspension
\* point, chain_tip is the tip of the chain the listener has been told
\* about, and the calls of the polls that follow obey the stack discipline
\* on the listener's chain: no block_disconnected for a block that is not
\* the listener's tip and no block_connected for a block that does not
\* extend it.
DroppedPollCoherence ==
  caller = "poll" =>
    /\ (pc = "idle" /\ result.status = "Dropped") => chain_tip.block_hash = ListenerTip
    /\ Disciplined(listener_before, listener)

\* C22: in any sequence of polls of a client constructed with a cache that
\* holds only headers of the chain ending at chain_tip, after every poll that
\* returned (Ok or Err) every header in the cache is chain_tip or an
\* ancestor of it.
CacheOnTipChain ==
  (caller = "poll" /\ pc = "idle" /\ result.status # "Dropped") =>
    DOMAIN header_cache \subseteq Chain(chain_tip.block_hash)

\* The cached entry for the header of a block_disconnected call, if any,
\* is that header.
CachedIsDisconnected(cache, c) ==
  LET cached_header == CacheGet(cache, c.block_hash)
  IN IsSome(cached_header) =>
       /\ Unwrap(cached_header).block_hash = c.block_hash
       /\ Unwrap(cached_header).prev_blockhash = c.prev_blockhash
       /\ Unwrap(cached_header).height = c.height

\* C23: in any sequence of polls of an SpvClient, dropped ones included,
\* the assert_eq!(cached_header, *header) of the disconnect loop never
\* fails: every cache entry is the header the poller returns for its hash,
\* so whenever the hash of a disconnected header is found in the cache the
\* cached entry equals the header being disconnected.
CacheAssertHolds ==
  caller = "poll" =>
    /\ pc # "panicked"
    /\ \A b \in DOMAIN header_cache : header_cache[b] = Header(b)
    /\ \A i \in 1..Len(listener) :
         IsDisconnect(listener[i]) => CachedIsDisconnected(cache_before, listener[i])
    /\ FindForkDone => DisconnectPass(events, 1, DisconnectPassInit(cache_before)).assert_ok

\* A poll disconnected two headers that were both in the cache and returned.
CacheAssertHoldsWitness ==
  /\ caller = "poll" /\ pc = "idle"
  /\ result.status = "Ok"
  /\ NumDisconnects(listener) >= 2
  /\ DisconnectedHashes(listener) \subseteq DOMAIN cache_before
  /\ DisconnectedHashes(listener) \cap DOMAIN header_cache = {}

\* chain_tip is on the chain of the source's best block.
OnBestChain == chain_tip.block_hash \in Chain(best_block)

\* A poll started with chain_tip on the best block's chain makes no
\* block_disconnected call and connects only headers of that chain above
\* the chain_tip it started with.
RetryConnectsAbove ==
  tip_before.block_hash \in Chain(best_block) =>
    \A i \in 1..Len(listener) :
      /\ IsConnect(listener[i])
      /\ listener[i].height > tip_before.height
      /\ listener[i].block_hash \in Chain(best_block)

\* C21: with the source's best block fixed at a Better tip t that shares an
\* ancestor with chain_tip, polls repeated for ever and every poller call
\* succeeding when repeated often enough, chain_tip eventually equals t and
\* stays t; once chain_tip is on t's chain (after a partial commit at a
\* header p of it) it stays on it and never moves down, and a poll started
\* there delivers no block_disconnected and connects only headers above p,
\* so that no block is announced connected twice.
EventuallySynced ==
  /\ <>[](chain_tip.block_hash = best_block)
  /\ []RetryConnectsAbove
  /\ [][OnBestChain =>
          /\ chain_tip'.block_hash \in Chain(best_block')
          /\ chain_tip'.height >= chain_tip.height]_vars

\* A poll that started at a header below t on t's chain, with nothing of
\* the remaining blocks cached, has brought chain_tip to t.
EventuallySyncedWitness ==
  /\ caller = "poll" /\ pc = "idle"
  /\ chain_tip.block_hash = best_block
  /\ tip_before.block_hash \in Chain(best_block) \ {best_block}
  /\ tip_before.height > 0
  /\ sync_result = Some(SyncOk)
  /\ NumConnects(listener) >= 2
  /\ lookups # <<>>
====
